---- MODULE Spec2Model ----
(***************************************************************************)
(* A model of training_utils.py: the resolution bucket planner             *)
(* (calculate_resolution_array), the training step (train_step) and the    *)
(* ahead-of-time compilation of one executable per bucket                  *)
(* (dp_compile_all_unique_resolution).                                     *)
(*                                                                         *)
(* The specifications share the variables below:                           *)
(*   SpecPlanner  one call of calculate_resolution_array                   *)
(*   SpecStep     one call (or trace) of train_step                        *)
(*   Spec         one call of dp_compile_all_unique_resolution             *)
(*   SpecSched    the same call under fair scheduling of its threads       *)
(*   SpecState    one call of on_device_model_training_state               *)
(* Each specification leaves the other groups of variables at their idle   *)
(* values.                                                                 *)
(***************************************************************************)
EXTENDS Integers, Sequences, FiniteSets, TLC

VARIABLES
    \* ---- calculate_resolution_array ----
    calc_pc,                 \* "idle" | "call" | "returned" | "raised"
    max_res_area,            \* argument
    bucket_lower_bound_res,  \* argument
    rounding,                \* argument
    resolution,              \* the returned array: a sequence of <<width, height>>
    \* ---- train_step ----
    step_pc,                 \* position in train_step / compute_loss
    prediction_type,         \* frozen_noise_scheduler_state.call.config.prediction_type
    strip_bos_eos_token,     \* static argument
    batch_size,              \* training_config.batch_size (latents.shape[0])
    context_window_concatenation_count,  \* training_config field
    text_encoder_context_window,         \* training_config field
    encoder_hidden_states,   \* the value of the local of that name
    target,                  \* "none" | "noise" | "velocity"
    loss,                    \* "none" | "mse"
    grad,                    \* "none" | "computed"
    step_result,             \* "none" | the returned tuple
    step_error,              \* "none" | the exception raised
    \* ---- dp_compile_all_unique_resolution ----
    pc,                      \* position of the calling thread
    image_area_root,         \* training_config.image_area_root
    minimum_axis_length,     \* training_config.minimum_axis_length
    all_possible_resolution, \* the merged bucket list
    threads,                 \* number of Thread objects appended and started
    joined,                  \* number of threads the join loop has passed
    worker,                  \* worker[i]: state of the thread of bucket i
    compiled_train_step,     \* the dict: image shape -> executable
    \* ---- on_device_model_training_state ----
    state_pc,                \* position in on_device_model_training_state
    unet_learning_rate,      \* training_config field, in units of 1e-7
    text_encoder_learning_rate,  \* training_config field, in units of 1e-7
    adam_to_lion_scale_factor,   \* training_config field
    unet_state,              \* "none" | the optimizer settings of the state
    text_encoder_state       \* "none" | the optimizer settings of the state

calcVars == <<calc_pc, max_res_area, bucket_lower_bound_res, rounding, resolution>>

stepVars == <<step_pc, prediction_type, strip_bos_eos_token, batch_size,
              context_window_concatenation_count, text_encoder_context_window,
              encoder_hidden_states, target, loss, grad, step_result, step_error>>

cacheVars == <<pc, image_area_root, minimum_axis_length, all_possible_resolution,
               threads, joined, worker, compiled_train_step>>

optVars == <<state_pc, unet_learning_rate, text_encoder_learning_rate,
             adam_to_lion_scale_factor, unet_state, text_encoder_state>>

vars == <<calcVars, stepVars, cacheVars, optVars>>

-----------------------------------------------------------------------------
(* Bounds of the model.                                                    *)

MaxArea == 100
MaxLowerBound == 10
MaxRounding == 4

-----------------------------------------------------------------------------
(* calculate_resolution_array                                              *)

\* int(max_res_area ** (1 / 2)): the integer part of the square root.
Centroid(area) == CHOOSE c \in 0..area : c * c <= area /\ (c + 1) * (c + 1) > area

\* np.arange(start, stop, step) for step > 0.
Arange(start, stop, step) ==
    IF stop <= start THEN <<>>
    ELSE [i \in 1..(((stop - start - 1) \div step) + 1) |-> start + (i - 1) * step]

\* A width axis that runs one step past the centroid.
WidthAxis_PastCentroid(area, lower, r) ==
    Arange((lower \div r) * r, (Centroid(area) \div r) * r + 2 * r, r)

\* w: the multiples of rounding from the rounded-down lower bound up to the
\* rounded-down centroid (the stop value is one step past it).
WidthAxis(area, lower, r) ==
    Arange((lower \div r) * r, (Centroid(area) \div r) * r + r, r)

\* h = ((max_res_area / w) // rounding * rounding).astype(int), element-wise.
\* The true division followed by the floor division is floor(area / (w * r)).
HeightAxis(area, w, r) == [i \in DOMAIN w |-> ((area \div w[i]) \div r) * r]

\* np.flip of a one-dimensional array.
Flip(s) == [i \in 1..Len(s) |-> s[Len(s) + 1 - i]]

\* A square test that never chops the last element.
SquarePossible_Never(w, h) == FALSE

\* "is square array possible?": w[-1] - h[-1] == 0.
SquarePossible(w, h) == w[Len(w)] - h[Len(h)] = 0

\* w_delta / h_delta: the flipped axis, without its last element when chop.
Delta(s, chop) == IF chop THEN Flip(SubSeq(s, 1, Len(s) - 1)) ELSE Flip(s)

\* np.stack([w, h]).T: row i is (w[i], h[i]).
StackT(w, h) == [i \in 1..Len(w) |-> <<w[i], h[i]>>]

\* w[-1] on an empty array raises IndexError.
CalcRaises(area, lower, r) == WidthAxis(area, lower, r) = <<>>

\* The array calculate_resolution_array returns (when it does not raise).
CalculateResolutionArray(area, lower, r) ==
    LET w == WidthAxis(area, lower, r)
        h == HeightAxis(area, w, r)
        chop == SquarePossible(w, h)
        w_delta == Delta(w, chop)
        h_delta == Delta(h, chop)
    IN  StackT(w \o h_delta, h \o w_delta)

\* Inputs of the planner: a positive rounding step and a lower bound of at
\* least one step, so that no width is 0 (the division by a zero width has
\* no defined integer result).
PlannerInputs ==
    {in \in (1..MaxArea) \X (1..MaxLowerBound) \X (1..MaxRounding) : in[2] >= in[3]}

CalcIdle ==
    /\ calc_pc = "idle"
    /\ max_res_area = 0
    /\ bucket_lower_bound_res = 0
    /\ rounding = 0
    /\ resolution = <<>>

CalcInit ==
    /\ calc_pc = "call"
    /\ \E in \in PlannerInputs :
          /\ max_res_area = in[1]
          /\ bucket_lower_bound_res = in[2]
          /\ rounding = in[3]
    /\ resolution = <<>>

\* The call returns the resolution array.
CalcReturn ==
    /\ calc_pc = "call"
    /\ ~CalcRaises(max_res_area, bucket_lower_bound_res, rounding)
    /\ resolution' = CalculateResolutionArray(max_res_area, bucket_lower_bound_res, rounding)
    /\ calc_pc' = "returned"
    /\ UNCHANGED <<max_res_area, bucket_lower_bound_res, rounding>>
    /\ UNCHANGED <<stepVars, cacheVars, optVars>>

\* The lower bound lies above the centroid: w is empty and w[-1] raises.
CalcRaise ==
    /\ calc_pc = "call"
    /\ CalcRaises(max_res_area, bucket_lower_bound_res, rounding)
    /\ calc_pc' = "raised"
    /\ UNCHANGED <<max_res_area, bucket_lower_bound_res, rounding, resolution>>
    /\ UNCHANGED <<stepVars, cacheVars, optVars>>

-----------------------------------------------------------------------------
(* train_step                                                              *)

MaxBatch == 2
MaxWindows == 7
MaxWindowLen == 78

\* The window length the reshape in compute_loss is written with.
ReshapeWindow == 77

PredictionTypes == {"epsilon", "v_prediction", "sample"}

\* The concatenation of a sequence of sequences.
RECURSIVE Concat(_)
Concat(ss) == IF ss = <<>> THEN <<>> ELSE Head(ss) \o Concat(Tail(ss))

\* Python slices of a sequence: s[:-1], s[1:], s[1:-1].
DropLast(s) == IF Len(s) = 0 THEN <<>> ELSE SubSeq(s, 1, Len(s) - 1)
DropFirst(s) == IF Len(s) = 0 THEN <<>> ELSE SubSeq(s, 2, Len(s))
Interior(s) == DropLast(DropFirst(s))

\* The text encoder's output for input_ids of shape (batch * count, window):
\* one row per input row, one hidden state per token. A hidden state is
\* named by the <<row, position>> of the token it belongs to (the hidden
\* axis is carried through every later operation unchanged).
TextEncoderOutput(b, k, l) == [r \in 1..(b * k) |-> [t \in 1..l |-> <<r, t>>]]

\* jnp.reshape(x, (batch, -1, 77, hidden)) fails unless the element count
\* is a multiple of batch * 77.
ReshapeFails(rows, b) == Len(Concat(rows)) % (b * ReshapeWindow) # 0

\* jnp.reshape(x, (batch, -1, 77, hidden)): row-major, so example e holds
\* the e-th run of n * 77 hidden states, cut into n windows of 77.
ReshapeWindows(rows, b) ==
    LET flat == Concat(rows)
        n == Len(flat) \div (b * ReshapeWindow)
    IN  [e \in 1..b |-> [j \in 1..n |-> [t \in 1..ReshapeWindow |->
            flat[((e - 1) * n + (j - 1)) * ReshapeWindow + t]]]]

\* strip_bos_eos_token: per example, window 0 without its last state, the
\* windows 1:-1 without first and last state (flattened), window -1 without
\* its first state, concatenated along the token axis.
StripConcat(windows) ==
    [e \in DOMAIN windows |->
        LET ws == windows[e]
        IN  DropLast(ws[1])
            \o Concat([j \in 1..Len(Interior(ws)) |-> Interior(Interior(ws)[j])])
            \o DropFirst(ws[Len(ws)])]

\* Not stripping: per example, the windows flattened into one sequence.
FlattenWindows(windows) == [e \in DOMAIN windows |-> Concat(windows[e])]

\* A target selection that falls back to the noise for an unknown type.
SelectTarget_FallsBack(ptype) ==
    IF ptype = "v_prediction" THEN "velocity" ELSE "noise"

\* The target by prediction type; "raise" is the ValueError of the else branch.
SelectTarget(ptype) ==
    IF ptype = "epsilon" THEN "noise"
    ELSE IF ptype = "v_prediction" THEN "velocity"
    ELSE "raise"

\* batch_size is a field of the configuration: each specification sets it.
StepIdle ==
    /\ step_pc = "idle"
    /\ prediction_type = "v_prediction"
    /\ strip_bos_eos_token = TRUE
    /\ context_window_concatenation_count = 0
    /\ text_encoder_context_window = 0
    /\ encoder_hidden_states = <<>>
    /\ target = "none"
    /\ loss = "none"
    /\ grad = "none"
    /\ step_result = "none"
    /\ step_error = "none"

StepInit ==
    /\ step_pc = "split_rng"
    /\ prediction_type \in PredictionTypes
    /\ strip_bos_eos_token \in BOOLEAN
    /\ batch_size \in 1..MaxBatch
    /\ context_window_concatenation_count \in 1..MaxWindows
    /\ text_encoder_context_window \in 1..MaxWindowLen
    /\ encoder_hidden_states = <<>>
    /\ target = "none"
    /\ loss = "none"
    /\ grad = "none"
    /\ step_result = "none"
    /\ step_error = "none"

stepConfig == <<prediction_type, strip_bos_eos_token, batch_size,
                context_window_concatenation_count, text_encoder_context_window>>

stepIdleVars == <<step_pc, prediction_type, strip_bos_eos_token,
                  context_window_concatenation_count, text_encoder_context_window,
                  encoder_hidden_states, target, loss, grad, step_result, step_error>>

\* jax.random.split(train_rng, num=3).
StepSplitRng ==
    /\ step_pc = "split_rng"
    /\ step_pc' = "latents"
    /\ UNCHANGED <<stepConfig, encoder_hidden_states, target, loss, grad,
                   step_result, step_error>>
    /\ UNCHANGED <<calcVars, cacheVars, optVars>>

\* compute_loss up to the noisy latents: VAE encoding, sampling, noise,
\* timesteps, add_noise.
StepNoisyLatents ==
    /\ step_pc = "latents"
    /\ step_pc' = "text_encoder"
    /\ UNCHANGED <<stepConfig, encoder_hidden_states, target, loss, grad,
                   step_result, step_error>>
    /\ UNCHANGED <<calcVars, cacheVars, optVars>>

\* The text encoder runs over batch["input_ids"].
StepTextEncoder ==
    /\ step_pc = "text_encoder"
    /\ encoder_hidden_states' =
          TextEncoderOutput(batch_size, context_window_concatenation_count,
                            text_encoder_context_window)
    /\ step_pc' = "reshape"
    /\ UNCHANGED <<stepConfig, target, loss, grad, step_result, step_error>>
    /\ UNCHANGED <<calcVars, cacheVars, optVars>>

\* The reshape to (batch, token_append, 77, hidden_states).
StepReshape ==
    /\ step_pc = "reshape"
    /\ ~ReshapeFails(encoder_hidden_states, batch_size)
    /\ encoder_hidden_states' = ReshapeWindows(encoder_hidden_states, batch_size)
    /\ step_pc' = "stitch"
    /\ UNCHANGED <<stepConfig, target, loss, grad, step_result, step_error>>
    /\ UNCHANGED <<calcVars, cacheVars, optVars>>

\* The reshape raises: the element count does not fit windows of 77.
StepReshapeRaise ==
    /\ step_pc = "reshape"
    /\ ReshapeFails(encoder_hidden_states, batch_size)
    /\ step_pc' = "raised"
    /\ step_error' = "reshape"
    /\ UNCHANGED <<stepConfig, encoder_hidden_states, target, loss, grad, step_result>>
    /\ UNCHANGED <<calcVars, cacheVars, optVars>>

\* The windows are stitched (or flattened) into one sequence per example.
StepStitch ==
    /\ step_pc = "stitch"
    /\ encoder_hidden_states' =
          IF strip_bos_eos_token THEN StripConcat(encoder_hidden_states)
          ELSE FlattenWindows(encoder_hidden_states)
    /\ step_pc' = "unet"
    /\ UNCHANGED <<stepConfig, target, loss, grad, step_result, step_error>>
    /\ UNCHANGED <<calcVars, cacheVars, optVars>>

\* The denoiser predicts from the noisy latents and the hidden states.
StepUnet ==
    /\ step_pc = "unet"
    /\ step_pc' = "select_target"
    /\ UNCHANGED <<stepConfig, encoder_hidden_states, target, loss, grad,
                   step_result, step_error>>
    /\ UNCHANGED <<calcVars, cacheVars, optVars>>

\* The target for a known prediction type.
StepSelectTarget ==
    /\ step_pc = "select_target"
    /\ SelectTarget(prediction_type) # "raise"
    /\ target' = SelectTarget(prediction_type)
    /\ step_pc' = "loss"
    /\ UNCHANGED <<stepConfig, encoder_hidden_states, loss, grad, step_result, step_error>>
    /\ UNCHANGED <<calcVars, cacheVars, optVars>>

\* "panic!!": raise ValueError for any other prediction type.
StepSelectTargetRaise ==
    /\ step_pc = "select_target"
    /\ SelectTarget(prediction_type) = "raise"
    /\ step_pc' = "raised"
    /\ step_error' = "unknown_prediction_type"
    /\ UNCHANGED <<stepConfig, encoder_hidden_states, target, loss, grad, step_result>>
    /\ UNCHANGED <<calcVars, cacheVars, optVars>>

\* The MSE loss: compute_loss returns.
StepLoss ==
    /\ step_pc = "loss"
    /\ loss' = "mse"
    /\ step_pc' = "backward"
    /\ UNCHANGED <<stepConfig, encoder_hidden_states, target, grad, step_result, step_error>>
    /\ UNCHANGED <<calcVars, cacheVars, optVars>>

\* value_and_grad differentiates the loss once compute_loss has returned.
StepBackward ==
    /\ step_pc = "backward"
    /\ grad' = "computed"
    /\ step_pc' = "apply_gradients"
    /\ UNCHANGED <<stepConfig, encoder_hidden_states, target, loss, step_result, step_error>>
    /\ UNCHANGED <<calcVars, cacheVars, optVars>>

\* Both optimizers are applied and the step returns its four results.
StepApplyAndReturn ==
    /\ step_pc = "apply_gradients"
    /\ step_result' = <<"new_unet_state", "new_text_encoder_state", loss, "new_train_rng">>
    /\ step_pc' = "returned"
    /\ UNCHANGED <<stepConfig, encoder_hidden_states, target, loss, grad, step_error>>
    /\ UNCHANGED <<calcVars, cacheVars, optVars>>

-----------------------------------------------------------------------------
(* dp_compile_all_unique_resolution                                        *)

MaxConstraints == 2

\* rounding=64 in the call of calculate_resolution_array.
BucketRounding == 64

\* Values the two configuration lists are drawn from.
RootChoices == {64, 100}
MinAxisChoices == {64, 128}

SeqsUpTo(S, n) == UNION {[1..m -> S] : m \in 0..n}

\* list(zip(a, b)): as long as the shorter list.
Zip(a, b) ==
    [i \in 1..(IF Len(a) <= Len(b) THEN Len(a) ELSE Len(b)) |-> <<a[i], b[i]>>]

\* The planner raises for one of the constraints, or there is no constraint
\* and np.concatenate of the empty list raises.
PlanRaises(constraints) ==
    \/ constraints = <<>>
    \/ \E i \in DOMAIN constraints :
          CalcRaises(constraints[i][1] * constraints[i][1], constraints[i][2],
                     BucketRounding)

\* One calculate_resolution_array per constraint, merged by np.concatenate.
PlanAll(constraints) ==
    Concat([i \in DOMAIN constraints |->
        CalculateResolutionArray(constraints[i][1] * constraints[i][1],
                                 constraints[i][2], BucketRounding)])

\* image_shape = batch["pixel_values"].shape: (batch_size, 3, width, height).
ImageShape(bucket, bs) == <<bs, 3, bucket[1], bucket[2]>>

\* The executable HLO.compile() makes for bucket i.
Executable(i) == [bucket |-> i]

\* A store that keeps an entry already present (first writer wins).
DictStore_KeepFirst(d, key, exe) ==
    [k \in DOMAIN d \cup {key} |-> IF k \in DOMAIN d THEN d[k] ELSE exe]

\* compiled_train_step[resolution] = exe.
DictStore(d, key, exe) ==
    [k \in DOMAIN d \cup {key} |-> IF k = key THEN exe ELSE d[k]]

NumBuckets == Len(all_possible_resolution)

CacheIdle ==
    /\ pc = "idle"
    /\ image_area_root = <<>>
    /\ minimum_axis_length = <<>>
    /\ all_possible_resolution = <<>>
    /\ threads = 0
    /\ joined = 0
    /\ worker = <<>>
    /\ compiled_train_step = <<>>

CacheInit ==
    /\ pc = "plan"
    /\ image_area_root \in SeqsUpTo(RootChoices, MaxConstraints)
    /\ minimum_axis_length \in SeqsUpTo(MinAxisChoices, MaxConstraints)
    /\ batch_size \in 1..MaxBatch
    /\ all_possible_resolution = <<>>
    /\ threads = 0
    /\ joined = 0
    /\ worker = <<>>
    /\ compiled_train_step = <<>>

cacheConfig == <<image_area_root, minimum_axis_length, batch_size>>

\* The bucket list is computed from the zipped constraint lists.
PlanBuckets ==
    /\ pc = "plan"
    /\ ~PlanRaises(Zip(image_area_root, minimum_axis_length))
    /\ all_possible_resolution' = PlanAll(Zip(image_area_root, minimum_axis_length))
    /\ worker' = [i \in 1..Len(all_possible_resolution') |-> "unstarted"]
    /\ pc' = "lower"
    /\ UNCHANGED <<cacheConfig, threads, joined, compiled_train_step>>
    /\ UNCHANGED <<calcVars, stepIdleVars, optVars>>

\* Planning raises on the calling thread.
PlanRaise ==
    /\ pc = "plan"
    /\ PlanRaises(Zip(image_area_root, minimum_axis_length))
    /\ pc' = "raised"
    /\ UNCHANGED <<cacheConfig, all_possible_resolution, threads, joined, worker,
                   compiled_train_step>>
    /\ UNCHANGED <<calcVars, stepIdleVars, optVars>>

\* _create_lowered_hlo(bucket) returns on the calling thread.
LowerHLO ==
    /\ pc = "lower"
    /\ pc' = "dispatch"
    /\ UNCHANGED <<cacheConfig, all_possible_resolution, threads, joined, worker,
                   compiled_train_step>>
    /\ UNCHANGED <<calcVars, stepIdleVars, optVars>>

\* _create_lowered_hlo(bucket) raises (tracing train_step raised, or the
\* lowering itself failed): the exception leaves the function.
LowerRaise ==
    /\ pc = "lower"
    /\ pc' = "raised"
    /\ UNCHANGED <<cacheConfig, all_possible_resolution, threads, joined, worker,
                   compiled_train_step>>
    /\ UNCHANGED <<calcVars, stepIdleVars, optVars>>

\* A dispatch that starts the workers of all remaining buckets at once.
Dispatch_StartsAll ==
    /\ pc = "dispatch"
    /\ threads' = threads + 1
    /\ worker' = [i \in DOMAIN worker |->
                    IF worker[i] = "unstarted" THEN "compiling" ELSE worker[i]]
    /\ pc' = IF threads + 1 < Len(all_possible_resolution) THEN "lower" ELSE "join"
    /\ UNCHANGED <<image_area_root, minimum_axis_length, batch_size,
                   all_possible_resolution, joined, compiled_train_step>>
    /\ UNCHANGED <<calcVars, step_pc, prediction_type, strip_bos_eos_token,
                   context_window_concatenation_count, text_encoder_context_window,
                   encoder_hidden_states, target, loss, grad, step_result, step_error,
                   optVars>>

\* Thread(target=_compile_unique_res_train_step, args=lowered) is appended
\* and started; the loop goes on to the next bucket, or to the joins.
Dispatch ==
    /\ pc = "dispatch"
    /\ threads' = threads + 1
    /\ worker' = [worker EXCEPT ![threads + 1] = "compiling"]
    /\ pc' = IF threads + 1 < NumBuckets THEN "lower" ELSE "join"
    /\ UNCHANGED <<cacheConfig, all_possible_resolution, joined, compiled_train_step>>
    /\ UNCHANGED <<calcVars, stepIdleVars, optVars>>

\* HLO.compile() returns in the worker of bucket i.
WorkerCompile(i) ==
    /\ worker[i] = "compiling"
    /\ worker' = [worker EXCEPT ![i] = "compiled"]
    /\ UNCHANGED <<pc, cacheConfig, all_possible_resolution, threads, joined,
                   compiled_train_step>>
    /\ UNCHANGED <<calcVars, stepIdleVars, optVars>>

\* HLO.compile() raises in the worker of bucket i: the thread ends with the
\* exception, nothing is stored.
WorkerFail(i) ==
    /\ worker[i] = "compiling"
    /\ worker' = [worker EXCEPT ![i] = "failed"]
    /\ UNCHANGED <<pc, cacheConfig, all_possible_resolution, threads, joined,
                   compiled_train_step>>
    /\ UNCHANGED <<calcVars, stepIdleVars, optVars>>

\* The worker of bucket i stores its executable under the image shape, and ends.
WorkerStore(i) ==
    /\ worker[i] = "compiled"
    /\ compiled_train_step' =
          DictStore(compiled_train_step,
                    ImageShape(all_possible_resolution[i], batch_size), Executable(i))
    /\ worker' = [worker EXCEPT ![i] = "done"]
    /\ UNCHANGED <<pc, cacheConfig, all_possible_resolution, threads, joined>>
    /\ UNCHANGED <<calcVars, stepIdleVars, optVars>>

\* A join that returns without waiting for the thread to end.
Join_NoWait ==
    /\ pc = "join"
    /\ joined < threads
    /\ joined' = joined + 1
    /\ UNCHANGED <<pc, cacheConfig, all_possible_resolution, threads, worker,
                   compiled_train_step>>
    /\ UNCHANGED <<calcVars, stepIdleVars, optVars>>

\* thread.join() returns once that thread has ended, however it ended.
Join ==
    /\ pc = "join"
    /\ joined < threads
    /\ worker[joined + 1] \in {"done", "failed"}
    /\ joined' = joined + 1
    /\ UNCHANGED <<pc, cacheConfig, all_possible_resolution, threads, worker,
                   compiled_train_step>>
    /\ UNCHANGED <<calcVars, stepIdleVars, optVars>>

\* A return that does not wait for the join loop to finish.
Return_BeforeJoins ==
    /\ pc = "join"
    /\ pc' = "returned"
    /\ UNCHANGED <<cacheConfig, all_possible_resolution, threads, joined, worker,
                   compiled_train_step>>
    /\ UNCHANGED <<calcVars, stepIdleVars, optVars>>

\* return compiled_train_step, after the last join.
Return ==
    /\ pc = "join"
    /\ joined = threads
    /\ pc' = "returned"
    /\ UNCHANGED <<cacheConfig, all_possible_resolution, threads, joined, worker,
                   compiled_train_step>>
    /\ UNCHANGED <<calcVars, stepIdleVars, optVars>>

-----------------------------------------------------------------------------
(* create_lion_optimizer_states and on_device_model_training_state         *)
(*                                                                         *)
(* Learning rates are counted in units of 1e-7 and weight decays in units  *)
(* of 1e-2; a quotient lr / scale is the pair <<lr, scale>>.               *)

MaxLearningRate == 11
MaxScaleFactor == 8

\* u_net_learning_rate: float = 1e-6, text_encoder_learning_rate: float = 1e-6.
DefaultLearningRate == 10

\* adam_to_lion_scale_factor=7 in the call of create_lion_optimizer_states.
CallScaleFactor == 7

\* weight_decay=1e-2 * adam_to_lion_scale_factor.
WeightDecayBase == 1

\* optax.clip_by_global_norm(1).
ClipNorm == 1

\* Equality of two quotients.
RatEq(a, b) == a[1] * b[2] = b[1] * a[2]

\* The optimizer of one state: clipping chained with lion at the constant
\* rate lr / scale and the weight decay 1e-2 * scale.
LionOptimizer(lr, scale) ==
    [learning_rate |-> <<lr, scale>>,
     weight_decay |-> WeightDecayBase * scale,
     clip |-> ClipNorm]

\* create_lion_optimizer_states(models, train_unet, train_text_encoder,
\* adam_to_lion_scale_factor, u_net_learning_rate, text_encoder_learning_rate).
CreateLionOptimizerStates(train_unet, train_text_encoder, scale, u_lr, te_lr) ==
    [unet_state |-> IF train_unet THEN LionOptimizer(u_lr, scale) ELSE "none",
     text_encoder_state |->
        IF train_text_encoder THEN LionOptimizer(te_lr, scale) ELSE "none"]

\* The call in on_device_model_training_state: train_text_encoder=True,
\* train_unet=True, adam_to_lion_scale_factor=7, the learning rates left at
\* their defaults. The arguments are the three fields of training_config.
TrainedModelStates(u_lr, te_lr, scale) ==
    CreateLionOptimizerStates(TRUE, TRUE, CallScaleFactor,
                              DefaultLearningRate, DefaultLearningRate)

OptIdle ==
    /\ state_pc = "idle"
    /\ unet_learning_rate = 0
    /\ text_encoder_learning_rate = 0
    /\ adam_to_lion_scale_factor = 0
    /\ unet_state = "none"
    /\ text_encoder_state = "none"

OptInit ==
    /\ state_pc = "load_models"
    /\ unet_learning_rate \in 1..MaxLearningRate
    /\ text_encoder_learning_rate \in 1..MaxLearningRate
    /\ adam_to_lion_scale_factor \in 1..MaxScaleFactor
    /\ unet_state = "none"
    /\ text_encoder_state = "none"

optConfig == <<unet_learning_rate, text_encoder_learning_rate, adam_to_lion_scale_factor>>

\* load_models(model_dir=training_config.model_path).
StateLoadModels ==
    /\ state_pc = "load_models"
    /\ state_pc' = "create_states"
    /\ UNCHANGED <<optConfig, unet_state, text_encoder_state>>
    /\ UNCHANGED <<calcVars, stepVars, cacheVars>>

\* create_lion_optimizer_states(...) and create_frozen_states(...).
StateCreateStates ==
    /\ state_pc = "create_states"
    /\ LET states == TrainedModelStates(unet_learning_rate, text_encoder_learning_rate,
                                        adam_to_lion_scale_factor)
       IN  /\ unet_state' = states.unet_state
           /\ text_encoder_state' = states.text_encoder_state
    /\ state_pc' = "device_put"
    /\ UNCHANGED optConfig
    /\ UNCHANGED <<calcVars, stepVars, cacheVars>>

\* Every leaf is placed replicated on the mesh; the states are returned.
StateDevicePutAndReturn ==
    /\ state_pc = "device_put"
    /\ state_pc' = "returned"
    /\ UNCHANGED <<optConfig, unet_state, text_encoder_state>>
    /\ UNCHANGED <<calcVars, stepVars, cacheVars>>

-----------------------------------------------------------------------------
(* Specifications                                                          *)

Init == CalcIdle /\ StepIdle /\ CacheInit /\ OptIdle

Next ==
    \/ PlanBuckets
    \/ PlanRaise
    \/ LowerHLO
    \/ LowerRaise
    \/ Dispatch
    \/ \E i \in DOMAIN worker : WorkerCompile(i)
    \/ \E i \in DOMAIN worker : WorkerFail(i)
    \/ \E i \in DOMAIN worker : WorkerStore(i)
    \/ Join
    \/ Return

Spec == Init /\ [][Next]_vars

\* The steps of the calling thread.
CallingThread ==
    PlanBuckets \/ PlanRaise \/ LowerHLO \/ LowerRaise \/ Dispatch \/ Join \/ Return

\* The most buckets one constraint of the configuration can give.
MaxBucketsPerConstraint ==
    LET lens == {Len(CalculateResolutionArray(c[1] * c[1], c[2], BucketRounding)) :
                    c \in {d \in RootChoices \X MinAxisChoices :
                              ~CalcRaises(d[1] * d[1], d[2], BucketRounding)}}
    IN  CHOOSE n \in lens : \A k \in lens : k <= n

\* The indices a worker thread can have.
WorkerIds == 1..(MaxConstraints * MaxBucketsPerConstraint)

\* HLO.compile() ends in the worker of bucket i, by returning or by raising.
CompileEnds(i) == i \in DOMAIN worker /\ (WorkerCompile(i) \/ WorkerFail(i))

\* The store of the worker of bucket i, once its compilation has returned.
StoreStep(i) == i \in DOMAIN worker /\ WorkerStore(i)

\* The scheduling the threads run under: the calling thread and every
\* worker that holds a compiled executable keep taking steps. Nothing is
\* assumed about how long a compilation takes.
\* The configuration of the scheduling runs: the batch size, which no
\* step of the threads reads but the shape keys, is held at 1.
InitSched == Init /\ batch_size = 1

SpecSched ==
    /\ InitSched
    /\ [][Next]_vars
    /\ WF_vars(CallingThread)
    /\ \A i \in WorkerIds : WF_vars(StoreStep(i))

InitPlanner == CalcInit /\ StepIdle /\ CacheIdle /\ OptIdle /\ batch_size = 0

NextPlanner == CalcReturn \/ CalcRaise

SpecPlanner == InitPlanner /\ [][NextPlanner]_vars

InitStep == CalcIdle /\ StepInit /\ CacheIdle /\ OptIdle

NextStep ==
    \/ StepSplitRng
    \/ StepNoisyLatents
    \/ StepTextEncoder
    \/ StepReshape
    \/ StepReshapeRaise
    \/ StepStitch
    \/ StepUnet
    \/ StepSelectTarget
    \/ StepSelectTargetRaise
    \/ StepLoss
    \/ StepBackward
    \/ StepApplyAndReturn

SpecStep == InitStep /\ [][NextStep]_vars

InitState == CalcIdle /\ StepIdle /\ CacheIdle /\ OptInit /\ batch_size = 0

NextState == StateLoadModels \/ StateCreateStates \/ StateDevicePutAndReturn

SpecState == InitState /\ [][NextState]_vars

-----------------------------------------------------------------------------
(* Properties of calculate_resolution_array (under SpecPlanner)            *)

Min2(a, b) == IF a <= b THEN a ELSE b

\* C1: every emitted bucket has width and height multiples of rounding, an
\* area of at most max_res_area and a minor axis of at least
\* bucket_lower_bound_res, whether or not the lower bound is a multiple of
\* rounding.
C1_BucketsWithinConstraints ==
    calc_pc = "returned" =>
        \A i \in DOMAIN resolution :
            /\ resolution[i][1] % rounding = 0
            /\ resolution[i][2] % rounding = 0
            /\ resolution[i][1] * resolution[i][2] <= max_res_area
            /\ Min2(resolution[i][1], resolution[i][2]) >= bucket_lower_bound_res

\* C2: the bucket list is symmetric and free of duplicates: no pair occurs
\* twice, the swap of every non-square bucket is in the list, and at most
\* one bucket is square.
C2_SymmetricNoDuplicates ==
    calc_pc = "returned" =>
        /\ \A i, j \in DOMAIN resolution : resolution[i] = resolution[j] => i = j
        /\ \A i \in DOMAIN resolution :
              resolution[i][1] # resolution[i][2] =>
                  \E j \in DOMAIN resolution :
                      resolution[j] = <<resolution[i][2], resolution[i][1]>>
        /\ Cardinality({i \in DOMAIN resolution : resolution[i][1] = resolution[i][2]}) <= 1

\* A returned list that holds the square bucket between non-square ones.
C2_Witness ==
    /\ calc_pc = "returned"
    /\ Len(resolution) >= 3
    /\ \E i \in DOMAIN resolution : resolution[i][1] = resolution[i][2]
    /\ \E i \in DOMAIN resolution : resolution[i][1] < resolution[i][2]

\* C3: every emitted bucket, the mirrored ones included, has a positive
\* width and height = floor((max_res_area / width) / rounding) * rounding.
C3_ClampFormulaEverywhere ==
    calc_pc = "returned" =>
        \A i \in DOMAIN resolution :
            /\ resolution[i][1] > 0
            /\ resolution[i][2] =
                  ((max_res_area \div resolution[i][1]) \div rounding) * rounding

\* A returned list with mirrored buckets (width above height) of several widths.
C3_Witness ==
    /\ calc_pc = "returned"
    /\ Cardinality({i \in DOMAIN resolution : resolution[i][1] > resolution[i][2]}) >= 2

-----------------------------------------------------------------------------
(* Properties of train_step (under SpecStep)                               *)

\* The hidden states of windows first..last of one input row.
RowStates(row, first, last) == [t \in 1..(last - first + 1) |-> <<row, first + t - 1>>]

\* What stitching example e of k windows of l tokens is to give: window 1
\* without its last token, the middle windows without first and last token,
\* window k without its first token.
StitchedWindows(e, k, l) ==
    Concat([j \in 1..k |->
        RowStates((e - 1) * k + j, IF j = 1 THEN 1 ELSE 2, IF j = k THEN l ELSE l - 1)])

\* C6: with stripping and k >= 2 windows of any configured length L, the
\* hidden states are split into k windows of L tokens per example and the
\* stitched sequence has length (L-1) + (k-2)*(L-2) + (L-1): the first
\* window without its last token, the middle windows without both ends, the
\* last window without its first token.
C6_StitchLengthLaw ==
    LET k == context_window_concatenation_count
        l == text_encoder_context_window
    IN  (strip_bos_eos_token /\ k >= 2 /\ l >= 2) =>
            /\ step_pc = "stitch" =>
                  \A e \in 1..batch_size :
                      /\ Len(encoder_hidden_states[e]) = k
                      /\ \A j \in 1..k : Len(encoder_hidden_states[e][j]) = l
            /\ step_pc = "unet" =>
                  \A e \in 1..batch_size :
                      /\ Len(encoder_hidden_states[e]) = (l - 1) + (k - 2) * (l - 2) + (l - 1)
                      /\ encoder_hidden_states[e] = StitchedWindows(e, k, l)

\* C7: stitching a single window of L tokens with stripping gives the
\* tokens 2..L-1 of that window, in order, each once.
C7_SingleWindowStrip ==
    (strip_bos_eos_token /\ context_window_concatenation_count = 1
        /\ step_pc = "unet") =>
        \A e \in 1..batch_size :
            encoder_hidden_states[e] = RowStates(e, 2, text_encoder_context_window - 1)

\* C8: with a prediction type other than epsilon and v_prediction the step
\* never gets past the target selection, where it can only raise: no
\* target, no loss, no gradient and no result is ever produced.
C8_UnknownPredictionTypeAborts ==
    prediction_type \notin {"epsilon", "v_prediction"} =>
        /\ step_pc \notin {"loss", "backward", "apply_gradients", "returned"}
        /\ target = "none"
        /\ loss = "none"
        /\ grad = "none"
        /\ step_result = "none"
        /\ step_pc = "select_target" => ENABLED StepSelectTargetRaise
        /\ step_pc = "raised" => step_error # "none"

\* The step has raised the error of the unknown prediction type.
C8_Witness ==
    /\ prediction_type = "sample"
    /\ step_pc = "raised"
    /\ step_error = "unknown_prediction_type"
    /\ grad = "none"

-----------------------------------------------------------------------------
(* Properties of dp_compile_all_unique_resolution (under Spec)             *)

Shape(i) == ImageShape(all_possible_resolution[i], batch_size)

DistinctShapes == \A i, j \in 1..NumBuckets : Shape(i) = Shape(j) => i = j

\* C4: the returned mapping has exactly N entries when the N buckets have
\* pairwise distinct shapes, and fewer than N when there are duplicates.
C4_CacheComplete ==
    pc = "returned" =>
        /\ DistinctShapes => Cardinality(DOMAIN compiled_train_step) = NumBuckets
        /\ ~DistinctShapes => Cardinality(DOMAIN compiled_train_step) < NumBuckets

\* C5: the function never returns normally after the compilation of a
\* bucket failed in its worker, nor with a cache that lacks that bucket's
\* shape.
C5_CompileFailureSurfaced ==
    pc = "returned" =>
        \A i \in DOMAIN worker :
            /\ worker[i] # "failed"
            /\ Shape(i) \in DOMAIN compiled_train_step

\* C9: with constraint lists of different lengths nothing is planned,
\* lowered or dispatched: the call raises at setup.
C9_MismatchedListsRejected ==
    Len(image_area_root) # Len(minimum_axis_length) =>
        /\ pc \in {"plan", "raised"}
        /\ all_possible_resolution = <<>>
        /\ threads = 0

\* C10, as claimed: of two buckets of the same shape whose executables were
\* both stored, the returned cache holds the one of the later bucket in
\* list order.
C10_LaterBucketWins ==
    pc = "returned" =>
        \A i, j \in 1..NumBuckets :
            (i < j /\ Shape(i) = Shape(j)
             /\ \A m \in 1..NumBuckets :
                   Shape(m) = Shape(i) => (worker[m] = "done" /\ m <= j))
            => compiled_train_step[Shape(i)] = Executable(j)

\* The worker of bucket i stores in this step.
Stores(i) == worker[i] = "compiled" /\ worker'[i] = "done"

\* C10, as amended: the entry of a shape is the executable stored last in
\* time. Every store of a worker overwrites the entry of its shape and no
\* other entry, the dict changes by nothing but a store, and every entry is
\* the executable of a finished worker of a bucket of that shape.
C10_LastStoreWins ==
    /\ [](\A key \in DOMAIN compiled_train_step :
            \E i \in 1..NumBuckets :
                /\ Shape(i) = key
                /\ worker[i] = "done"
                /\ compiled_train_step[key] = Executable(i))
    /\ [][/\ \A w \in DOMAIN worker :
                Stores(w) =>
                    (/\ compiled_train_step'[Shape(w)] = Executable(w)
                     /\ \A key \in DOMAIN compiled_train_step :
                           (key # Shape(w) =>
                               compiled_train_step'[key] = compiled_train_step[key]))
            /\ (compiled_train_step' # compiled_train_step =>
                  \E i \in DOMAIN worker : Stores(i))]_vars

\* The call has returned a cache that holds, for a shape two buckets
\* share, the executable of the earlier bucket: its worker stored last.
C10_Witness ==
    /\ pc = "returned"
    /\ \E i, j \in 1..NumBuckets :
          /\ i < j
          /\ Shape(i) = Shape(j)
          /\ worker[i] = "done"
          /\ worker[j] = "done"
          /\ compiled_train_step[Shape(i)] = Executable(i)

\* A worker that was started and has not ended.
Running(i) == worker[i] \in {"compiling", "compiled"}

\* C11, as claimed: whenever control leaves the function, by its return or
\* by an exception, every worker that was started has ended.
C11_WorkersEndedOnExit ==
    pc \in {"returned", "raised"} => \A i \in DOMAIN worker : ~Running(i)

\* C11, as amended: when the function returns, a worker was started for
\* every bucket, every one of them was joined and has ended, and none can
\* store into the dict any more.
C11_WorkersEndedOnReturn ==
    pc = "returned" =>
        /\ threads = NumBuckets
        /\ joined = threads
        /\ \A i \in DOMAIN worker :
              /\ worker[i] \in {"done", "failed"}
              /\ ~ENABLED WorkerStore(i)

\* The function has returned a cache its workers filled.
C11_Witness ==
    /\ pc = "returned"
    /\ threads >= 2
    /\ \A i \in DOMAIN worker : worker[i] = "done"
    /\ Cardinality(DOMAIN compiled_train_step) >= 2

\* C12: lowering is sequential on the calling thread and in list order,
\* and never waits for a worker; the worker of a bucket is started only by
\* the dispatch that follows the lowering of that bucket, so the started
\* workers are those of the first `threads` buckets, the bucket being
\* lowered has none yet, and after the loop there is one per bucket.
C12_SequentialLoweringConcurrentCompile ==
    /\ [](/\ \A i \in DOMAIN worker : (worker[i] # "unstarted") <=> (i <= threads)
          /\ (pc \in {"lower", "dispatch"} =>
                (threads < NumBuckets /\ worker[threads + 1] = "unstarted"))
          /\ (pc = "lower" => ENABLED LowerHLO)
          /\ (pc \in {"join", "returned"} =>
                (threads = NumBuckets /\ Len(worker) = NumBuckets)))
    /\ [][/\ \A i \in DOMAIN worker :
                (worker[i] = "unstarted" /\ worker'[i] # "unstarted") =>
                    (pc = "dispatch" /\ i = threads + 1 /\ threads' = i
                     /\ worker'[i] = "compiling")
          /\ (pc' = "dispatch" /\ pc # "dispatch" => pc = "lower")
          /\ (threads' # threads => threads' = threads + 1)]_vars

\* Bucket i is compiling in its worker while bucket i+1 is being lowered.
C12_Witness ==
    /\ pc = "lower"
    /\ threads >= 1
    /\ worker[threads] = "compiling"
    /\ worker[threads + 1] = "unstarted"

-----------------------------------------------------------------------------
(* Termination of dp_compile_all_unique_resolution (under SpecSched)       *)

\* C13: if every compilation ends, the call ends: it returns the cache,
\* unless planning or a lowering raised. And the call does not return
\* while the compilation of any worker has not ended: a worker that never
\* finishes compiling keeps it from returning for ever.
C13_TerminatesWithWorkers ==
    /\ (\A i \in WorkerIds : WF_vars(CompileEnds(i))) => <>(pc \in {"returned", "raised"})
    /\ [](pc = "returned" =>
            \A i \in DOMAIN worker : worker[i] \notin {"unstarted", "compiling"})

\* The calling thread is blocked in the join of a worker that is still
\* compiling, every other worker having ended.
C13_Witness ==
    /\ pc = "join"
    /\ threads >= 2
    /\ worker[joined + 1] = "compiling"
    /\ \A i \in DOMAIN worker : i # joined + 1 => worker[i] = "done"
    /\ ~ENABLED CallingThread

-----------------------------------------------------------------------------
(* Properties of on_device_model_training_state (under SpecState)          *)

\* C14: the returned states use the configuration: the denoiser's learning
\* rate is unet_learning_rate / adam_to_lion_scale_factor, the text
\* encoder's is text_encoder_learning_rate / adam_to_lion_scale_factor, and
\* both weight decays are 1e-2 * adam_to_lion_scale_factor.
C14_StatesUseConfig ==
    state_pc = "returned" =>
        /\ RatEq(unet_state.learning_rate,
                 <<unet_learning_rate, adam_to_lion_scale_factor>>)
        /\ RatEq(text_encoder_state.learning_rate,
                 <<text_encoder_learning_rate, adam_to_lion_scale_factor>>)
        /\ unet_state.weight_decay = WeightDecayBase * adam_to_lion_scale_factor
        /\ text_encoder_state.weight_decay = WeightDecayBase * adam_to_lion_scale_factor

====
